---- MODULE Spec2Model ----
(***************************************************************************)
(* Model of initial_load.js: the one-shot export that reads every row of a *)
(* Snowflake table, dumps the rows as one JSON object to S3 and loads them *)
(* into DynamoDB in batches of 25.                                         *)
(*                                                                         *)
(* The process is a chain of callbacks / await continuations.  Each action *)
(* below is one of them, run to its next suspension point: it consumes the *)
(* completion of the operation that was awaited and issues the next one.   *)
(***************************************************************************)
EXTENDS Integers, Sequences, FiniteSets, TLC

VARIABLES
    table,      \* the source table: the row sequence SELECT * returns
    store,      \* the DynamoDB table: gclid value -> item
    archive,    \* the S3 bucket: object key -> body
    run,        \* number of process launches so far
    pc,         \* where main() is suspended
    rows,       \* main's `rows` (<<>> until fetchAllRows resolves)
    conn,       \* the connection object of fetchAllRows
    inflight,   \* operations issued and not yet completed
    batches,    \* writeToDynamoDB's `batches`
    bi,         \* index of the batch whose batchWrite is awaited
    exitCode,   \* process.exitCode (0 while unset)
    putReq,     \* the putObject calls issued in this run (their params)
    calls,      \* the batchWrite calls issued in this run (their batches)
    log,        \* the awaited operations' issue/completion events of this run
    storeAtStart, \* the DynamoDB table when this run started
    prevSnap    \* the sinks and outcome of the previous run

vars == <<table, store, archive, run, pc, rows, conn, inflight, batches, bi,
          exitCode, putReq, calls, log, storeAtStart, prevSnap>>

-----------------------------------------------------------------------------
(* Bounds of the model *)

MaxRows == 52
MaxRuns == 2

(* Program constants *)

BatchSize == 25

S3_KEY_PREFIX == "click_performance/"

S3_BUCKET == "bucket"

DYNAMO_TABLE_NAME == "table"

-----------------------------------------------------------------------------
(* Records.  A scalar is <<type, text>>, type one of str, num, bool, null. *)
(* A record maps each column name to a scalar.  The columns are gclid, the *)
(* key of the DynamoDB table, and one further column.                      *)

Columns == <<"gclid", "val">>

Vals == << <<"str", "1">>, <<"num", "1">>, <<"str", "null">>,
           <<"null", "null">>, <<"bool", "true">>, <<"str", "true">> >>

KeyPeriods == {1, BatchSize + 1, MaxRows + 1}

ValPeriods == {1, Len(Vals)}

Row(i, kp, vp) ==
    [gclid |-> <<"str", ToString(((i - 1) % kp) + 1)>>,
     val   |-> Vals[((i - 1) % vp) + 1]]

Tables ==
    { [i \in 1..n |-> Row(i, kp, vp)] :
        n \in 0..MaxRows, kp \in KeyPeriods, vp \in ValPeriods }

-----------------------------------------------------------------------------
(* writeToDynamoDB, lines 59-68: the loop that builds `batches`.           *)

PutRequest(row) == [PutRequest |-> [Item |-> row]]

(* The body of the for loop, lines 62-66, on the loop's state.             *)
BatchStep(st, row) ==
    LET pushed == Append(st.current, PutRequest(row))
    IN  IF Len(pushed) = BatchSize
        THEN [batches |-> Append(st.batches, pushed), current |-> <<>>]
        ELSE [batches |-> st.batches, current |-> pushed]

(* The loop over rows lo..hi from state st: the rows of the first half,    *)
(* then those of the second.                                               *)
RECURSIVE BatchLoop(_, _, _, _)
BatchLoop(st, rs, lo, hi) ==
    IF lo > hi THEN st
    ELSE IF lo = hi THEN BatchStep(st, rs[lo])
    ELSE LET mid == (lo + hi) \div 2
             left == BatchLoop(st, rs, lo, mid)
         IN  \* `current` is always short of a full batch between iterations
             IF Len(left.current) < BatchSize
             THEN BatchLoop(left, rs, mid + 1, hi)
             ELSE left

(* Variants of the batching code with a plausible slip each: the trailing  *)
(* partial batch is never pushed; the flush test is `>` instead of `===`.  *)
MakeBatchesNoFlush(rs) ==
    BatchLoop([batches |-> <<>>, current |-> <<>>], rs, 1, Len(rs)).batches

MakeBatchesFlushLate(rs) ==
    LET size == BatchSize + 1
        n == (Len(rs) + size - 1) \div size
    IN  [k \in 1..n |->
            [j \in 1..(IF k * size <= Len(rs) THEN size ELSE Len(rs) - (k - 1) * size)
                |-> PutRequest(rs[(k - 1) * size + j])]]

MakeBatches(rs) ==
    LET end == BatchLoop([batches |-> <<>>, current |-> <<>>], rs, 1, Len(rs))
    IN  IF Len(end.current) # 0 THEN Append(end.batches, end.current) ELSE end.batches

BatchWriteParams(batch) ==
    [RequestItems |-> [t \in {DYNAMO_TABLE_NAME} |-> batch]]

-----------------------------------------------------------------------------
(* DynamoDB: a put creates the item or replaces the item with the same key *)
(* (the table is keyed by gclid).  A batchWrite that succeeds has applied  *)
(* every put of its request.                                               *)

(* Variant: the table is keyed by another attribute than gclid.            *)
KeyOfVal(item) == item.val

KeyOf(item) == item.gclid

PutItem(st, item) == (KeyOf(item) :> item) @@ st

(* The puts lo..hi of a request, in order.                                 *)
RECURSIVE ApplyPuts(_, _, _, _)
ApplyPuts(st, reqs, lo, hi) ==
    IF lo > hi THEN st
    ELSE IF lo = hi THEN PutItem(st, reqs[lo].PutRequest.Item)
    ELSE LET mid == (lo + hi) \div 2
             left == ApplyPuts(st, reqs, lo, mid)
         IN  \* the table holds an item once a put was applied
             IF DOMAIN left # {}
             THEN ApplyPuts(left, reqs, mid + 1, hi)
             ELSE left

(* DynamoDB rejects a request that names the same key twice.               *)
Accepted(params) ==
    LET reqs == params.RequestItems[DYNAMO_TABLE_NAME]
    IN  Cardinality({KeyOf(reqs[i].PutRequest.Item) : i \in 1..Len(reqs)}) = Len(reqs)

BatchWrite(st, params) ==
    LET reqs == params.RequestItems[DYNAMO_TABLE_NAME]
    IN  ApplyPuts(st, reqs, 1, Len(reqs))

-----------------------------------------------------------------------------
(* JSON.stringify, line 84, and the text it produces.  The text is kept as *)
(* its tokens: [q, s] is the token with spelling s, quoted when q holds.   *)

Tok(q, s) == [q |-> q, s |-> s]

Punct(s) == Tok(FALSE, s)

(* Variant: a string is written without its quotes.                        *)
StringifyValueBare(v) == Tok(FALSE, v[2])

StringifyValue(v) == IF v[1] = "str" THEN Tok(TRUE, v[2]) ELSE Tok(FALSE, v[2])

RECURSIVE StringifyMembers(_, _)
StringifyMembers(rec, k) ==
    IF k > Len(Columns) THEN <<>>
    ELSE (IF k > 1 THEN <<Punct(",")>> ELSE <<>>)
         \o <<Tok(TRUE, Columns[k]), Punct(":"), StringifyValue(rec[Columns[k]])>>
         \o StringifyMembers(rec, k + 1)

StringifyObject(rec) == <<Punct("{")>> \o StringifyMembers(rec, 1) \o <<Punct("}")>>

(* The elements lo..hi of the array, each after the first behind a comma. *)
RECURSIVE StringifyElements(_, _, _)
StringifyElements(rs, lo, hi) ==
    IF lo > hi THEN <<>>
    ELSE IF lo = hi
         THEN (IF lo > 1 THEN <<Punct(",")>> ELSE <<>>) \o StringifyObject(rs[lo])
         ELSE LET mid == (lo + hi) \div 2
              IN  StringifyElements(rs, lo, mid) \o StringifyElements(rs, mid + 1, hi)

JSONstringify(rs) ==
    <<Punct("[")>> \o StringifyElements(rs, 1, Len(rs)) \o <<Punct("]")>>

(* Variant: the object name carries the number of the run.                 *)
ObjectKeyPerRun == S3_KEY_PREFIX \o ToString(run) \o "initial_load.json"

ObjectKey == S3_KEY_PREFIX \o "initial_load.json"

PutObjectParams(rs, key) ==
    [Bucket |-> S3_BUCKET, Key |-> key, Body |-> JSONstringify(rs)]

(* S3: a put that succeeds stores the body under the key, replacing what   *)
(* the key held.                                                           *)
PutObject(bucket, params) == (params.Key :> params.Body) @@ bucket

-----------------------------------------------------------------------------
(* The state after construction: nothing has run, both sinks are empty.    *)

NoSnap == [ok |-> FALSE, archive |-> <<>>, store |-> <<>>]

Init ==
    /\ table \in Tables
    /\ store = <<>>
    /\ archive = <<>>
    /\ run = 0
    /\ pc = "idle"
    /\ rows = <<>>
    /\ conn = "none"
    /\ inflight = {}
    /\ batches = <<>>
    /\ bi = 0
    /\ exitCode = 0
    /\ putReq = <<>>
    /\ calls = <<>>
    /\ log = <<>>
    /\ storeAtStart = <<>>
    /\ prevSnap = NoSnap

Ev(kind, op) == <<kind, op>>

(* main's catch, lines 96-99: the error is logged, the exit code set, and  *)
(* main returns.                                                           *)
CatchExitCode == 1

Catch(op) ==
    /\ exitCode' = CatchExitCode
    /\ pc' = "done"
    /\ log' = Append(log, Ev("err", op))

(* Variant of Main: execute is called without waiting for the connect      *)
(* callback.                                                               *)
MainNoWait ==
    /\ pc = "idle" \/ (pc = "done" /\ inflight = {})
    /\ run < MaxRuns
    /\ run' = run + 1
    /\ prevSnap' = [ok |-> (pc = "done" /\ exitCode = 0),
                    archive |-> archive, store |-> store]
    /\ storeAtStart' = store
    /\ conn' = "created"
    /\ inflight' = {"connect", "execute"}
    /\ pc' = "querying"
    /\ rows' = <<>>
    /\ batches' = <<>>
    /\ bi' = 0
    /\ exitCode' = 0
    /\ putReq' = <<>>
    /\ calls' = <<>>
    /\ log' = <<Ev("issue", "connect"), Ev("issue", "execute")>>
    /\ UNCHANGED <<table, store, archive>>

(* main, lines 89-91 and 102-104, into fetchAllRows, lines 28-38: a new    *)
(* process creates the connection and issues connect.  A process is        *)
(* launched once the previous one has exited, which it does when main has  *)
(* returned and nothing is pending.                                        *)
Main ==
    /\ pc = "idle" \/ (pc = "done" /\ inflight = {})
    /\ run < MaxRuns
    /\ run' = run + 1
    /\ prevSnap' = [ok |-> (pc = "done" /\ exitCode = 0),
                    archive |-> archive, store |-> store]
    /\ storeAtStart' = store
    /\ conn' = "created"
    /\ inflight' = {"connect"}
    /\ pc' = "connecting"
    /\ rows' = <<>>
    /\ batches' = <<>>
    /\ bi' = 0
    /\ exitCode' = 0
    /\ putReq' = <<>>
    /\ calls' = <<>>
    /\ log' = <<Ev("issue", "connect")>>
    /\ UNCHANGED <<table, store, archive>>

(* The connect callback, lines 38-54.                                      *)
ConnectCallback(err) ==
    /\ pc = "connecting"
    /\ "connect" \in inflight
    /\ IF err
       THEN /\ Catch("connect")
            /\ inflight' = inflight \ {"connect"}
       ELSE /\ inflight' = (inflight \ {"connect"}) \cup {"execute"}
            /\ pc' = "querying"
            /\ log' = log \o <<Ev("ok", "connect"), Ev("issue", "execute")>>
            /\ UNCHANGED exitCode
    /\ UNCHANGED <<table, store, archive, run, rows, conn, batches, bi,
                   putReq, calls, storeAtStart, prevSnap>>

(* dumpToS3, lines 80-86, up to its await: putObject is issued.            *)
DumpToS3Issue(rs, key) ==
    /\ putReq' = Append(putReq, PutObjectParams(rs, key))
    /\ pc' = "putting"

(* Variants of the `complete` callback: the error is dropped and the       *)
(* promise resolved with no rows; destroy() is called on success only.     *)
ExecuteCompleteResolveAnyway(err) ==
    /\ pc = "querying"
    /\ "execute" \in inflight
    /\ conn' = "destroyed"
    /\ rows' = IF err THEN <<>> ELSE table
    /\ DumpToS3Issue(rows', ObjectKey)
    /\ inflight' = (inflight \ {"execute"}) \cup {"destroy", "putObject"}
    /\ log' = log \o <<Ev(IF err THEN "err" ELSE "ok", "execute"),
                       Ev("issue", "putObject")>>
    /\ UNCHANGED <<table, store, archive, run, batches, bi, calls, exitCode,
                   storeAtStart, prevSnap>>

ExecuteCompleteDestroyOnSuccess(err) ==
    /\ pc = "querying"
    /\ "execute" \in inflight
    /\ IF err
       THEN /\ Catch("execute")
            /\ inflight' = inflight \ {"execute"}
            /\ UNCHANGED <<rows, putReq, conn>>
       ELSE /\ conn' = "destroyed"
            /\ rows' = table
            /\ DumpToS3Issue(rows', ObjectKey)
            /\ inflight' = (inflight \ {"execute"}) \cup {"destroy", "putObject"}
            /\ log' = log \o <<Ev("ok", "execute"), Ev("issue", "putObject")>>
            /\ UNCHANGED exitCode
    /\ UNCHANGED <<table, store, archive, run, batches, bi, calls,
                   storeAtStart, prevSnap>>

(* The execute `complete` callback, lines 45-52, and on resolve main's     *)
(* lines 91-93 into dumpToS3.  destroy() is called without a callback: its *)
(* request is issued and nothing waits for it.                             *)
ExecuteComplete(err) ==
    /\ pc = "querying"
    /\ "execute" \in inflight
    /\ conn' = "destroyed"
    /\ IF err
       THEN /\ Catch("execute")
            /\ inflight' = (inflight \ {"execute"}) \cup {"destroy"}
            /\ UNCHANGED <<rows, putReq>>
       ELSE /\ rows' = table
            /\ DumpToS3Issue(rows', ObjectKey)
            /\ inflight' = (inflight \ {"execute"}) \cup {"destroy", "putObject"}
            /\ log' = log \o <<Ev("ok", "execute"), Ev("issue", "putObject")>>
            /\ UNCHANGED exitCode
    /\ UNCHANGED <<table, store, archive, run, batches, bi, calls,
                   storeAtStart, prevSnap>>

(* The logout request of destroy() completes.                              *)
DestroyDone ==
    /\ "destroy" \in inflight
    /\ inflight' = inflight \ {"destroy"}
    /\ UNCHANGED <<table, store, archive, run, pc, rows, conn, batches, bi,
                   exitCode, putReq, calls, log, storeAtStart, prevSnap>>

(* Variant: the request is built from the first batch every time.         *)
IssueBatchFirst(bs, k) ==
    IF k <= Len(bs)
    THEN /\ bi' = k
         /\ calls' = Append(calls, BatchWriteParams(bs[1]))
         /\ pc' = "writing"
    ELSE /\ bi' = 0
         /\ calls' = calls
         /\ pc' = "done"

(* writeToDynamoDB, lines 70-76: the loop issues the batchWrite of batch k *)
(* and awaits it; past the last batch it returns to main, line 95.         *)
IssueBatch(bs, k) ==
    IF k <= Len(bs)
    THEN /\ bi' = k
         /\ calls' = Append(calls, BatchWriteParams(bs[k]))
         /\ pc' = "writing"
    ELSE /\ bi' = 0
         /\ calls' = calls
         /\ pc' = "done"

(* Variant: the archive error is swallowed and the load goes on.           *)
PutObjectDoneSwallow(err) ==
    /\ pc = "putting"
    /\ "putObject" \in inflight
    /\ archive' = IF err THEN archive ELSE PutObject(archive, putReq[Len(putReq)])
    /\ batches' = MakeBatches(rows)
    /\ IssueBatch(batches', 1)
    /\ inflight' = (inflight \ {"putObject"})
                     \cup (IF batches' # <<>> THEN {"batchWrite"} ELSE {})
    /\ log' = log \o <<Ev(IF err THEN "err" ELSE "ok", "putObject")>>
                  \o (IF batches' # <<>> THEN <<Ev("issue", "batchWrite")>> ELSE <<>>)
    /\ UNCHANGED <<table, store, run, rows, conn, putReq, exitCode,
                   storeAtStart, prevSnap>>

(* dumpToS3's await returns (line 86); main goes on to writeToDynamoDB,    *)
(* line 94, which builds the batches and issues the first.                 *)
PutObjectDone(err) ==
    /\ pc = "putting"
    /\ "putObject" \in inflight
    /\ IF err
       THEN /\ Catch("putObject")
            /\ inflight' = inflight \ {"putObject"}
            /\ UNCHANGED <<archive, batches, bi, calls>>
       ELSE /\ archive' = PutObject(archive, putReq[Len(putReq)])
            /\ batches' = MakeBatches(rows)
            /\ IssueBatch(batches', 1)
            /\ inflight' = (inflight \ {"putObject"})
                             \cup (IF batches' # <<>> THEN {"batchWrite"} ELSE {})
            /\ log' = log \o <<Ev("ok", "putObject")>>
                          \o (IF batches' # <<>> THEN <<Ev("issue", "batchWrite")>> ELSE <<>>)
            /\ UNCHANGED exitCode
    /\ UNCHANGED <<table, store, run, rows, conn, putReq, storeAtStart, prevSnap>>

(* Variant: a failed batch is skipped and the loop goes on.                *)
BatchWriteDoneContinue(err) ==
    /\ pc = "writing"
    /\ "batchWrite" \in inflight
    /\ err \/ Accepted(calls[Len(calls)])
    /\ store' = IF err THEN store ELSE BatchWrite(store, calls[Len(calls)])
    /\ IssueBatch(batches, bi + 1)
    /\ inflight' = (inflight \ {"batchWrite"})
                     \cup (IF bi < Len(batches) THEN {"batchWrite"} ELSE {})
    /\ log' = log \o <<Ev(IF err THEN "err" ELSE "ok", "batchWrite")>>
                  \o (IF bi < Len(batches) THEN <<Ev("issue", "batchWrite")>> ELSE <<>>)
    /\ UNCHANGED <<table, archive, run, rows, conn, batches, putReq, exitCode,
                   storeAtStart, prevSnap>>

(* The await of line 76 returns.  A call that fails has written nothing;   *)
(* a call can succeed only if DynamoDB accepts its request.                *)
BatchWriteDone(err) ==
    /\ pc = "writing"
    /\ "batchWrite" \in inflight
    /\ err \/ Accepted(calls[Len(calls)])
    /\ IF err
       THEN /\ Catch("batchWrite")
            /\ inflight' = inflight \ {"batchWrite"}
            /\ UNCHANGED <<store, bi, calls>>
       ELSE /\ store' = BatchWrite(store, calls[Len(calls)])
            /\ IssueBatch(batches, bi + 1)
            /\ inflight' = (inflight \ {"batchWrite"})
                             \cup (IF bi < Len(batches) THEN {"batchWrite"} ELSE {})
            /\ log' = log \o <<Ev("ok", "batchWrite")>>
                          \o (IF bi < Len(batches) THEN <<Ev("issue", "batchWrite")>> ELSE <<>>)
            /\ UNCHANGED exitCode
    /\ UNCHANGED <<table, archive, run, rows, conn, batches, putReq,
                   storeAtStart, prevSnap>>

Next ==
    \/ Main
    \/ \E err \in BOOLEAN : ConnectCallback(err)
    \/ \E err \in BOOLEAN : ExecuteComplete(err)
    \/ \E err \in BOOLEAN : PutObjectDone(err)
    \/ \E err \in BOOLEAN : BatchWriteDone(err)
    \/ DestroyDone

Spec == Init /\ [][Next]_vars

-----------------------------------------------------------------------------
(* Reading a JSON text back (what a consumer of the archive does): a       *)
(* parser of the token texts above.  Quoted tokens are strings; true,      *)
(* false and null are the literals; any other bare token is a number.      *)

At(toks, i) == IF i \in 1..Len(toks) THEN toks[i] ELSE Punct("")

ParseValue(t) ==
    IF t.q THEN <<"str", t.s>>
    ELSE IF t.s \in {"true", "false"} THEN <<"bool", t.s>>
    ELSE IF t.s = "null" THEN <<"null", "null">>
    ELSE <<"num", t.s>>

ParseFail == [ok |-> FALSE, value |-> <<>>, next |-> 0]

RECURSIVE ParseMembers(_, _, _)
ParseMembers(toks, i, acc) ==
    IF ~(At(toks, i).q /\ At(toks, i + 1) = Punct(":")) THEN ParseFail
    ELSE LET obj == (At(toks, i).s :> ParseValue(At(toks, i + 2))) @@ acc
         IN  IF At(toks, i + 3) = Punct(",") THEN ParseMembers(toks, i + 4, obj)
             ELSE IF At(toks, i + 3) = Punct("}")
                  THEN [ok |-> TRUE, value |-> obj, next |-> i + 4]
                  ELSE ParseFail

ParseObject(toks, i) ==
    IF At(toks, i) # Punct("{") THEN ParseFail
    ELSE IF At(toks, i + 1) = Punct("}")
         THEN [ok |-> TRUE, value |-> <<>>, next |-> i + 2]
         ELSE ParseMembers(toks, i + 1, <<>>)

(* One element of the array from parser state st: the object at st.next,   *)
(* then a comma (more follow) or the closing bracket, which ends the text. *)
ParseElement(st, toks) ==
    IF st.done \/ ~st.ok THEN st
    ELSE LET o == ParseObject(toks, st.next)
         IN  IF ~o.ok THEN [st EXCEPT !.ok = FALSE]
             ELSE IF At(toks, o.next) = Punct(",")
                  THEN [st EXCEPT !.value = Append(@, o.value), !.next = o.next + 1]
                  ELSE IF At(toks, o.next) = Punct("]") /\ o.next = Len(toks)
                       THEN [st EXCEPT !.value = Append(@, o.value),
                                       !.next = o.next + 1, !.done = TRUE]
                       ELSE [st EXCEPT !.ok = FALSE]

(* At most n elements from state st.                                       *)
RECURSIVE ParseElements(_, _, _)
ParseElements(st, toks, n) ==
    IF n <= 0 THEN st
    ELSE IF n = 1 THEN ParseElement(st, toks)
    ELSE LET left == ParseElements(st, toks, n \div 2)
         IN  IF left.done \/ ~left.ok THEN left
             ELSE ParseElements(left, toks, n - (n \div 2))

JSONparse(toks) ==
    IF At(toks, 1) # Punct("[") THEN ParseFail
    ELSE IF At(toks, 2) = Punct("]")
         THEN (IF Len(toks) = 2 THEN [ok |-> TRUE, value |-> <<>>, next |-> 3]
               ELSE ParseFail)
         ELSE LET end == ParseElements([ok |-> TRUE, value |-> <<>>, next |-> 2,
                                        done |-> FALSE], toks, Len(toks))
              IN  IF end.ok /\ end.done
                  THEN [ok |-> TRUE, value |-> end.value, next |-> end.next]
                  ELSE ParseFail

-----------------------------------------------------------------------------
(* Vocabulary of the properties.                                           *)

BulkWriteLimit == 25

CeilDiv(n, d) == (n + d - 1) \div d

HasEvent(e) == \E i \in 1..Len(log) : log[i] = e

LastEvent == IF log = <<>> THEN Ev("none", "none") ELSE log[Len(log)]

CountEvents(e) == Cardinality({i \in 1..Len(log) : log[i] = e})

RunEnded == pc = "done"

ItemsOf(params) ==
    LET b == params.RequestItems[DYNAMO_TABLE_NAME]
    IN  [j \in 1..Len(b) |-> b[j].PutRequest.Item]

RECURSIVE Concat(_, _)
Concat(seqs, i) == IF i > Len(seqs) THEN <<>> ELSE seqs[i] \o Concat(seqs, i + 1)

CallItems == Concat([k \in 1..Len(calls) |-> ItemsOf(calls[k])], 1)

Occurrences(sq, x) == Cardinality({i \in 1..Len(sq) : sq[i] = x})

Range(sq) == {sq[i] : i \in 1..Len(sq)}

SameMultiset(a, b) ==
    /\ Len(a) = Len(b)
    /\ \A x \in Range(a) \cup Range(b) : Occurrences(a, x) = Occurrences(b, x)

-----------------------------------------------------------------------------
(* C1: when no bulk-write call fails, a run over N records issues exactly  *)
(* ceil(N/25) batchWrite calls, each with 1 to 25 items, and the items of  *)
(* all calls together are the input records as a multiset; for N = 0 no    *)
(* call is issued.                                                         *)
C1_BatchWriteCalls ==
    (RunEnded /\ exitCode = 0) =>
        /\ Len(calls) = CeilDiv(Len(rows), BulkWriteLimit)
        /\ \A k \in 1..Len(calls) :
               Len(ItemsOf(calls[k])) \in 1..BulkWriteLimit
        /\ SameMultiset(CallItems, rows)
        /\ (Len(rows) = 0 => calls = <<>>)
        /\ CountEvents(Ev("issue", "batchWrite")) = Len(calls)

C1_Witness ==
    /\ RunEnded /\ exitCode = 0
    /\ Len(rows) > BulkWriteLimit
    /\ Len(rows) % BulkWriteLimit # 0
    /\ Len(calls) >= 2
    /\ \E i, j \in 1..Len(rows) : i # j /\ rows[i] = rows[j]

(* C10: the batches are a contiguous, order-preserving partition of the    *)
(* input: concatenated in issue order they are the input sequence, every   *)
(* batch but the last holds 25 items and the last holds                    *)
(* N - 25*(ceil(N/25)-1), which is at least 1.                             *)
BatchesBuilt == HasEvent(Ev("ok", "putObject"))

BatchItems ==
    Concat([k \in 1..Len(batches) |->
               [j \in 1..Len(batches[k]) |-> batches[k][j].PutRequest.Item]], 1)

C10_BatchesPartition ==
    BatchesBuilt =>
        LET N == Len(rows)
            n == Len(batches)
        IN  /\ BatchItems = rows
            /\ \A k \in 1..(n - 1) : Len(batches[k]) = BulkWriteLimit
            /\ n > 0 => /\ Len(batches[n]) = N - BulkWriteLimit * (CeilDiv(N, BulkWriteLimit) - 1)
                        /\ Len(batches[n]) >= 1
            /\ (N = 52 => [k \in 1..n |-> Len(batches[k])] = <<25, 25, 2>>)

C10_Witness ==
    /\ BatchesBuilt
    /\ Len(rows) = 52
    /\ Len(batches) = 3
    /\ Len(batches[3]) = 2

(* C7: after a successful archive write the object at                      *)
(* <prefix>initial_load.json is the JSON array of exactly the records the  *)
(* source returned, in source order, each with the same keys and values;   *)
(* for no records it is the text [].                                       *)
ArchiveWritten == HasEvent(Ev("ok", "putObject"))

C7_ArchiveIsRows ==
    ArchiveWritten =>
        /\ rows = table
        /\ "click_performance/initial_load.json" \in DOMAIN archive
        /\ LET parsed == JSONparse(archive["click_performance/initial_load.json"])
           IN  /\ parsed.ok
               /\ Len(parsed.value) = Len(table)
               /\ \A i \in 1..Len(table) :
                      /\ DOMAIN parsed.value[i] = DOMAIN table[i]
                      /\ \A c \in DOMAIN table[i] : parsed.value[i][c] = table[i][c]
        /\ (table = <<>> =>
               archive["click_performance/initial_load.json"] = <<Punct("["), Punct("]")>>)

C7_Witness ==
    /\ ArchiveWritten
    /\ Len(table) >= 2
    /\ \E i, j \in 1..Len(table) :
           /\ table[i].val = <<"str", "1">>
           /\ table[j].val = <<"num", "1">>
    /\ JSONparse(archive["click_performance/initial_load.json"]).value = table

(* C2: if the source read fails (connect or query), no putObject and no   *)
(* batchWrite is issued in that run and the run ends with a non-zero exit  *)
(* status.                                                                 *)
SourceReadFailed == HasEvent(Ev("err", "connect")) \/ HasEvent(Ev("err", "execute"))

C2_SourceFailureAborts ==
    SourceReadFailed =>
        /\ putReq = <<>>
        /\ calls = <<>>
        /\ ~HasEvent(Ev("issue", "putObject"))
        /\ ~HasEvent(Ev("issue", "batchWrite"))
        /\ inflight \subseteq {"destroy"}
        /\ RunEnded
        /\ exitCode # 0

C2_Witness ==
    /\ HasEvent(Ev("err", "execute"))
    /\ RunEnded
    /\ Len(table) > BulkWriteLimit
    /\ putReq = <<>>

(* C3: if the archive write fails, no batchWrite is issued in that run,    *)
(* the key-value store is as it was when the run started, and the run ends *)
(* with a non-zero exit status.                                            *)
C3_ArchiveFailureAborts ==
    HasEvent(Ev("err", "putObject")) =>
        /\ calls = <<>>
        /\ ~HasEvent(Ev("issue", "batchWrite"))
        /\ "batchWrite" \notin inflight
        /\ store = storeAtStart
        /\ RunEnded
        /\ exitCode # 0

C3_Witness ==
    /\ HasEvent(Ev("err", "putObject"))
    /\ RunEnded
    /\ Len(rows) > BulkWriteLimit
    /\ calls = <<>>

(* C4 as claimed: on every path through fetchAllRows, the connect-fails    *)
(* path included, the connection is destroyed before the outcome reaches   *)
(* the caller, and no run ends with a connection that was never destroyed. *)
Settled == pc \in {"putting", "writing", "done"}

C4_AlwaysReleased == Settled => conn = "destroyed"

(* C4 as amended: when connect succeeds, destroy() has been called on the  *)
(* connection before the query's outcome reaches the caller, whether the   *)
(* query failed or not; when connect fails destroy() is never called and   *)
(* the run ends with the connection created and not destroyed.             *)
C4_ReleasedAfterConnect ==
    /\ Settled =>
          IF HasEvent(Ev("err", "connect"))
          THEN conn = "created"
          ELSE conn = "destroyed"
    /\ pc \in {"connecting", "querying"} => conn = "created"

C4_Witness ==
    /\ RunEnded
    /\ HasEvent(Ev("err", "execute"))
    /\ conn = "destroyed"
    /\ exitCode # 0

(* C5: if the k-th batchWrite fails the run aborts: the failed batch is   *)
(* not issued again, no later batch is issued, what batches 1..k-1 wrote   *)
(* stays in the key-value store, and the exit status is non-zero.          *)
RECURSIVE ApplyCalls(_, _, _, _)
ApplyCalls(st, cs, i, last) ==
    IF i > last THEN st ELSE ApplyCalls(BatchWrite(st, cs[i]), cs, i + 1, last)

DistinctKeys(rs) == \A i, j \in 1..Len(rs) : rs[i].gclid = rs[j].gclid => i = j

C5_BatchFailureAborts ==
    HasEvent(Ev("err", "batchWrite")) =>
        LET k == Len(calls)
        IN  /\ RunEnded
            /\ exitCode # 0
            /\ "batchWrite" \notin inflight
            /\ LastEvent = Ev("err", "batchWrite")
            /\ CountEvents(Ev("err", "batchWrite")) = 1
            /\ CountEvents(Ev("issue", "batchWrite")) = k
            /\ CountEvents(Ev("ok", "batchWrite")) = k - 1
            /\ k <= Len(batches)
            /\ \A j \in 1..k : calls[j] = BatchWriteParams(batches[j])
            /\ store = ApplyCalls(storeAtStart, calls, 1, k - 1)
            /\ \A j \in 1..(k - 1) : \A m \in 1..Len(batches[j]) :
                   LET item == batches[j][m].PutRequest.Item
                   IN  /\ item.gclid \in DOMAIN store
                       /\ DistinctKeys(rows) => store[item.gclid] = item

C5_Witness ==
    /\ HasEvent(Ev("err", "batchWrite"))
    /\ RunEnded
    /\ Len(calls) = 2
    /\ Len(batches) = 3
    /\ DistinctKeys(rows)
    /\ store # storeAtStart

(* C6 as claimed: at most one network operation is in flight in every      *)
(* state, and the operations are issued in the fixed order connect, query, *)
(* archive put, bulk-writes, each only after the one before it completed.  *)
AwaitedOps == {"connect", "execute", "putObject", "batchWrite"}

IssueOrder ==
    \A i \in 1..Len(log) :
        log[i][1] = "issue" =>
            CASE log[i][2] = "connect"   -> i = 1
              [] log[i][2] = "execute"   -> i > 1 /\ log[i - 1] = Ev("ok", "connect")
              [] log[i][2] = "putObject" -> i > 1 /\ log[i - 1] = Ev("ok", "execute")
              [] log[i][2] = "batchWrite" ->
                    /\ i > 1
                    /\ log[i - 1] \in {Ev("ok", "putObject"), Ev("ok", "batchWrite")}
                    /\ (log[i - 1] = Ev("ok", "putObject"))
                           <=> (\A h \in 1..(i - 1) : log[h] # Ev("issue", "batchWrite"))
              [] OTHER -> FALSE

C6_OneInFlight ==
    /\ Cardinality(inflight) <= 1
    /\ IssueOrder

(* C6 as amended: at most one of the awaited operations (connect, query,   *)
(* archive put, bulk-write) is in flight in every state, and they are      *)
(* issued in the fixed order, each only after the one before it completed; *)
(* the connection's destroy request, issued when the query completes and   *)
(* never waited for, may be in flight together with the archive put and    *)
(* the bulk-writes.                                                        *)
C6_OneAwaitedInFlight ==
    /\ Cardinality(inflight \cap AwaitedOps) <= 1
    /\ inflight \subseteq AwaitedOps \cup {"destroy"}
    /\ \A op \in AwaitedOps : op \in inflight <=> LastEvent = Ev("issue", op)
    /\ "destroy" \in inflight =>
           HasEvent(Ev("ok", "execute")) \/ HasEvent(Ev("err", "execute"))
    /\ IssueOrder

C6_Witness ==
    /\ pc = "writing"
    /\ bi = 2
    /\ inflight = {"destroy", "batchWrite"}

(* C8: two successful runs in a row over an unchanged source leave the     *)
(* sinks as one run does: the archive after the second run is the archive  *)
(* after the first, and the key-value store holds the same items.          *)
C8_RerunIdempotent ==
    (RunEnded /\ exitCode = 0 /\ prevSnap.ok) =>
        /\ archive = prevSnap.archive
        /\ store = prevSnap.store

C8_Witness ==
    /\ RunEnded /\ exitCode = 0 /\ prevSnap.ok
    /\ run >= 2
    /\ Len(rows) > BulkWriteLimit
    /\ ~DistinctKeys(rows)
    /\ store = prevSnap.store
    /\ store # <<>>

(* C9 as claimed: for every record sequence, the store after all batches   *)
(* of a run are written is the store that applying the batches in any      *)
(* permutation, or interleaved, gives.                                     *)
Perms(n) == {f \in [1..n -> 1..n] : \A i, j \in 1..n : f[i] = f[j] => i = j}

RECURSIVE ApplyInOrder(_, _, _, _)
ApplyInOrder(st, bs, order, i) ==
    IF i > Len(bs) THEN st
    ELSE ApplyInOrder(BatchWrite(st, BatchWriteParams(bs[order[i]])), bs, order, i + 1)

(* The puts of all batches taken in turn: the first of each batch, then    *)
(* the second of each, and so on.                                          *)
RoundRobin(bs) ==
    LET n == Len(bs)
        longest == IF n = 0 THEN 0
                   ELSE CHOOSE m \in {Len(bs[k]) : k \in 1..n} :
                            \A k \in 1..n : Len(bs[k]) <= m
        slots == [p \in 1..(n * longest) |-> <<((p - 1) \div n) + 1, ((p - 1) % n) + 1>>]
        Filled(jk) == jk[1] <= Len(bs[jk[2]])
        taken == SelectSeq(slots, Filled)
    IN  [p \in 1..Len(taken) |-> bs[taken[p][2]][taken[p][1]]]

AllWritten == RunEnded /\ exitCode = 0

AnyOrderGives(st, bs, final) ==
    /\ \A f \in Perms(Len(bs)) : ApplyInOrder(st, bs, f, 1) = final
    /\ ApplyPuts(st, RoundRobin(bs), 1, Len(RoundRobin(bs))) = final

C9_AnyOrderSameStore ==
    AllWritten => AnyOrderGives(storeAtStart, batches, store)

(* C9 as amended: for every record sequence in which any two records that  *)
(* fall in different batches and have the same key are identical (so in    *)
(* particular when the keys are pairwise distinct), applying the batches   *)
(* in any permutation, or interleaved, gives the store that applying them  *)
(* in issue order gives.                                                   *)
CrossBatchConsistent(bs) ==
    \A a, b \in 1..Len(bs) : a # b =>
        \A x \in 1..Len(bs[a]), y \in 1..Len(bs[b]) :
            LET ix == bs[a][x].PutRequest.Item
                iy == bs[b][y].PutRequest.Item
            IN  ix.gclid = iy.gclid => ix = iy

C9_DisjointBatchesAnyOrder ==
    (AllWritten /\ CrossBatchConsistent(batches)) =>
        AnyOrderGives(storeAtStart, batches, store)

C9_Witness ==
    /\ AllWritten
    /\ Len(batches) = 3
    /\ DistinctKeys(rows)
    /\ CrossBatchConsistent(batches)
    /\ \E i, j \in 1..Len(rows) : rows[i].val # rows[j].val
    /\ storeAtStart # <<>>

====
